---- MODULE Spec2Model ----
(***************************************************************************)
(* DocVector vector-store abstraction: the IVectorStore contract and its   *)
(* two adapters, ChromaVectorDB (embedded) and QdrantVectorDB (remote), as *)
(* documented with their code in src/epic.md.                              *)
(*                                                                         *)
(* One adapter instance talks to one backend engine.  The engine's         *)
(* collections are the state; every contract operation is one action that  *)
(* records what it was called with and what it answered in `last`.         *)
(***************************************************************************)
EXTENDS Integers, Sequences, FiniteSets, TLC

VARIABLES
    adapter,    \* "embedded" (ChromaVectorDB) or "remote" (QdrantVectorDB)
    client,     \* the engine handle: NoClient (Python None) or a handle id
    colls,      \* the engine's collections: a set of collection records
    last,       \* the last contract call: operation, arguments, outcome
    created,    \* history: the arguments each existing collection was created with
    settings,   \* the configuration object the factory reads
    fs,         \* the filesystem: the state of the persist directory's parent
    tasks,      \* the calls in flight: each one's position and local variables
    page        \* the search page: its React state and its request in flight

vars == <<adapter, client, colls, last, created, settings, fs, tasks, page>>

-----------------------------------------------------------------------------
(* Bounds of the model                                                     *)

MaxBatch == 2
MaxIdList == 2
MaxLimit == 2

-----------------------------------------------------------------------------
(* Universes the inputs are drawn from                                     *)

Null == "None"
\* self._client = None / self.client = None
NoClient == 0
\* Optional[T]: None, or a value
None == <<>>
Some(x) == <<x>>
IsNone(o) == o = <<>>
Val(o) == o[1]
Adapters == {"embedded", "remote"}
Names == {"docs"}
\* the ids, in ascending order
IdOrder == <<"a", "b", "c">>
IdRank(id) == CHOOSE i \in DOMAIN IdOrder : IdOrder[i] = id
\* the ids the write operations are called with
Ids == {"a", "b"}
Tags == {"x", "y"}
\* the vectors the write operations are called with, of length 1 and 2
Vectors == {<<1>>, <<1, 0>>}
DimensionArgs == {0, 1, 2}
StandardMetrics == {"cosine", "euclidean", "dot"}
MetricArgs == StandardMetrics \cup {"manhattan"}

\* VectorRecord(id, vector, payload): the payload is one tag
VectorRecord == [id : Ids, vector : Vectors, payload : Tags]

SeqsUpTo(S, n) == UNION {[1..k -> S] : k \in 0..n}

Batches == SeqsUpTo(VectorRecord, MaxBatch)
IdLists == SeqsUpTo(Ids, MaxIdList)
\* a filter dict: empty, or {"tag": t}
Filters == {<<>>} \cup {<<t>> : t \in Tags}

Range(s) == {s[i] : i \in DOMAIN s}
\* Python truthiness of an Optional list or dict: not None and not empty
Truthy(o) == ~IsNone(o) /\ Len(Val(o)) > 0
Min(a, b) == IF a <= b THEN a ELSE b
Max(a, b) == IF a >= b THEN a ELSE b

-----------------------------------------------------------------------------
(* Exact rational numbers <<numerator, denominator>>, denominator > 0:     *)
(* the floats of the scores and distances                                  *)

Rat(n, d) == <<n, d>>
Zero == Rat(0, 1)
One == Rat(1, 1)
RLe(a, b) == a[1] * b[2] <= b[1] * a[2]
RLt(a, b) == a[1] * b[2] < b[1] * a[2]
REq(a, b) == a[1] * b[2] = b[1] * a[2]
RMin(a, b) == IF RLe(a, b) THEN a ELSE b
RMax(a, b) == IF RLe(b, a) THEN a ELSE b
RNeg(a) == Rat(-a[1], a[2])
RSub(a, b) == Rat(a[1] * b[2] - b[1] * a[2], a[2] * b[2])
RAdd(a, b) == Rat(a[1] * b[2] + b[1] * a[2], a[2] * b[2])
RHalf(a) == Rat(a[1], 2 * a[2])
\* 1 / a, for a > 0
RInv(a) == Rat(a[2], a[1])

RECURSIVE DotFrom(_, _, _)
DotFrom(u, v, i) == IF i > Len(u) THEN 0 ELSE u[i] * v[i] + DotFrom(u, v, i + 1)
Dot(u, v) == DotFrom(u, v, 1)
RECURSIVE SqDistFrom(_, _, _)
SqDistFrom(u, v, i) ==
    IF i > Len(u) THEN 0
    ELSE (u[i] - v[i]) * (u[i] - v[i]) + SqDistFrom(u, v, i + 1)
SqDist(u, v) == SqDistFrom(u, v, 1)
Norm(u) == CHOOSE r \in 0..Dot(u, u) : r * r = Dot(u, u)

-----------------------------------------------------------------------------
(* The call record                                                         *)

NoArgs == [name |-> Null]
\* no call is in flight; no page is mounted
NoTasks == <<>>
NoPage == <<>>
\* pre: the engine's collections when the call was made
Call(op, args, outcome, ret, calls, pre) ==
    [op |-> op, args |-> args, outcome |-> outcome, ret |-> ret, calls |-> calls,
     pre |-> pre]

\* what an operation answers: its outcome ("ok" or the error raised), its
\* return value, the engine's collections afterwards, the engine calls made
Answer(outcome, ret, cs, calls) ==
    [outcome |-> outcome, ret |-> ret, colls |-> cs, calls |-> calls]

-----------------------------------------------------------------------------
(* The engines (chromadb, the Qdrant server): opaque collaborators         *)

EngineHas(cs, name) == \E c \in cs : c.name = name
EngineGet(cs, name) == CHOOSE c \in cs : c.name = name
Collection(name, dimension, metric) ==
    [name |-> name, dimension |-> dimension, metric |-> metric, points |-> {}]
EngineCreate(cs, name, dimension, metric) ==
    cs \cup {Collection(name, dimension, metric)}
EngineDrop(cs, name) == {c \in cs : c.name # name}

-----------------------------------------------------------------------------
(* Lifecycle                                                               *)

\* a handle object distinct from the current one
NewHandle(cur) == IF cur = 1 THEN 2 ELSE 1

\* ChromaVectorDB.initialize/_init_sync: always builds a PersistentClient
ChromaInitialize(cur) == NewHandle(cur)
\* QdrantVectorDB.initialize: connects once
QdrantInitialize(cur) == IF cur = NoClient THEN NewHandle(cur) ELSE cur

Initialize ==
    /\ client' = IF adapter = "embedded" THEN ChromaInitialize(client)
                 ELSE QdrantInitialize(client)
    /\ last' = Call("initialize", NoArgs, "ok", Null, <<>>, colls)
    /\ UNCHANGED <<tasks, page, settings, fs, adapter, colls, created>>

\* close(): releases the client reference
Close ==
    /\ client' = NoClient
    /\ last' = Call("close", NoArgs, "ok", Null, <<>>, colls)
    /\ UNCHANGED <<tasks, page, settings, fs, adapter, colls, created>>

-----------------------------------------------------------------------------
(* createCollection                                                        *)

\* metric_map.get(distance_metric.lower(), "cosine")
ChromaMetricMap(metric) ==
    CASE metric = "cosine" -> "cosine"
      [] metric = "euclidean" -> "l2"
      [] metric = "dot" -> "ip"
      [] OTHER -> "cosine"

\* distance_map.get(distance_metric.lower(), models.Distance.COSINE)
QdrantDistanceMap(metric) ==
    CASE metric = "cosine" -> "COSINE"
      [] metric = "euclidean" -> "EUCLID"
      [] metric = "dot" -> "DOT"
      [] OTHER -> "COSINE"

\* the remote engine answers 409 for a name it already has
QdrantCreateStatus(cs, name) == IF EngineHas(cs, name) THEN 409 ELSE 200

\* QdrantCreateError not recognizing the 409
QdrantCreateErrorUnmapped(status) == "RuntimeError"

\* except UnexpectedResponse: 409 -> ValueError("... already exists")
QdrantCreateError(status) ==
    IF status = 409 THEN "AlreadyExists" ELSE "RuntimeError"

QdrantCreateCollection(cl, cs, name, dimension, metric) ==
    IF cl = NoClient THEN Answer("NotInitialized", Null, cs, <<>>)
    ELSE IF dimension <= 0 THEN Answer("InvalidArgument", Null, cs, <<>>)
    ELSE LET status == QdrantCreateStatus(cs, name) IN
         IF status # 200
         THEN Answer(QdrantCreateError(status), Null, cs, <<"create_collection">>)
         ELSE Answer("ok", Null,
                     EngineCreate(cs, name, dimension, QdrantDistanceMap(metric)),
                     <<"create_collection">>)

ChromaCreateCollection(cl, cs, name, dimension, metric) ==
    IF cl = NoClient THEN Answer("NotInitialized", Null, cs, <<>>)
    ELSE IF dimension <= 0 THEN Answer("InvalidArgument", Null, cs, <<>>)
    ELSE IF EngineHas(cs, name)
         THEN Answer("AlreadyExists", Null, cs, <<"create_collection">>)
    ELSE Answer("ok", Null,
                EngineCreate(cs, name, dimension, ChromaMetricMap(metric)),
                <<"create_collection">>)

CreateCollection ==
    \E name \in Names, dimension \in DimensionArgs, metric \in MetricArgs :
        LET r == IF adapter = "embedded"
                 THEN ChromaCreateCollection(client, colls, name, dimension, metric)
                 ELSE QdrantCreateCollection(client, colls, name, dimension, metric)
        IN /\ colls' = r.colls
           /\ last' = Call("createCollection",
                           [name |-> name, dimension |-> dimension, metric |-> metric],
                           r.outcome, r.ret, r.calls, colls)
           /\ created' = IF r.outcome = "ok"
                         THEN [created EXCEPT ![name] =
                                  Some([dimension |-> dimension, metric |-> metric])]
                         ELSE created
           /\ UNCHANGED <<tasks, page, settings, fs, adapter, client>>

-----------------------------------------------------------------------------
(* Points of a collection in the engine                                    *)

Points(cs, name) == EngineGet(cs, name).points
PointsCount(cs, name) == Cardinality(Points(cs, name))
EngineSetPoints(cs, name, pts) ==
    {IF c.name = name THEN [c EXCEPT !.points = pts] ELSE c : c \in cs}

\* the engine's upsert of one point: the point replaces any point of its id
EngineUpsertOne(pts, p) == {q \in pts : q.id # p.id} \cup {p}
RECURSIVE EngineUpsertFrom(_, _, _)
EngineUpsertFrom(pts, batch, i) ==
    IF i > Len(batch) THEN pts
    ELSE EngineUpsertFrom(EngineUpsertOne(pts, batch[i]), batch, i + 1)
EngineUpsert(cs, name, batch) ==
    EngineSetPoints(cs, name, EngineUpsertFrom(Points(cs, name), batch, 1))

\* a filter dict holds for a point when every key it names has that value
Matches(p, f) == \A i \in DOMAIN f : p.payload = f[i]
EngineDeleteIds(cs, name, ids) ==
    EngineSetPoints(cs, name, {p \in Points(cs, name) : p.id \notin Range(ids)})
EngineDeleteWhere(cs, name, f) ==
    EngineSetPoints(cs, name, {p \in Points(cs, name) : ~Matches(p, f)})

-----------------------------------------------------------------------------
(* upsert                                                                  *)

\* ToPointStruct with the payload left out of the point
ToPointStructNoPayload(r) == [id |-> r.id, vector |-> r.vector, payload |-> Null]

\* models.PointStruct(id=r.id, vector=r.vector, payload=r.payload)
ToPointStruct(r) == [id |-> r.id, vector |-> r.vector, payload |-> r.payload]
ToPoints(records) == [i \in DOMAIN records |-> ToPointStruct(records[i])]

\* DimensionMismatch looking at the first record only
DimensionMismatchFirstOnly(cs, name, records) ==
    Len(records[1].vector) # EngineGet(cs, name).dimension

\* some record's vector length disagrees with the collection's dimension
DimensionMismatch(cs, name, records) ==
    \E i \in DOMAIN records : Len(records[i].vector) # EngineGet(cs, name).dimension

\* the count counting only the records that changed a row
RowsChangedCount(pts, records) ==
    Cardinality({i \in DOMAIN records :
                    [id |-> records[i].id, vector |-> records[i].vector,
                     payload |-> records[i].payload] \notin pts})

\* the count upsert returns: the records submitted
SubmittedCount(pts, records) == Len(records)

QdrantUpsert(cl, cs, name, records) ==
    IF cl = NoClient THEN Answer("NotInitialized", Null, cs, <<>>)
    ELSE IF ~EngineHas(cs, name) THEN Answer("NotFound", Null, cs, <<>>)
    ELSE IF Len(records) = 0 THEN Answer("ok", 0, cs, <<>>)
    ELSE IF DimensionMismatch(cs, name, records)
         THEN Answer("DimensionMismatch", Null, cs, <<>>)
    ELSE Answer("ok", SubmittedCount(Points(cs, name), records),
                EngineUpsert(cs, name, ToPoints(records)), <<"upsert">>)

\* the embedded engine takes the batch as parallel lists ids/embeddings/metadatas
ChromaUpsert(cl, cs, name, records) ==
    IF cl = NoClient THEN Answer("NotInitialized", Null, cs, <<>>)
    ELSE IF ~EngineHas(cs, name) THEN Answer("NotFound", Null, cs, <<>>)
    ELSE IF Len(records) = 0 THEN Answer("ok", 0, cs, <<>>)
    ELSE IF DimensionMismatch(cs, name, records)
         THEN Answer("DimensionMismatch", Null, cs, <<>>)
    ELSE Answer("ok", SubmittedCount(Points(cs, name), records),
                EngineUpsert(cs, name, records), <<"upsert">>)

Upsert ==
    \E name \in Names, records \in Batches :
        LET r == IF adapter = "embedded"
                 THEN ChromaUpsert(client, colls, name, records)
                 ELSE QdrantUpsert(client, colls, name, records)
        IN /\ colls' = r.colls
           /\ last' = Call("upsert", [name |-> name, records |-> records],
                           r.outcome, r.ret, r.calls, colls)
           /\ UNCHANGED <<tasks, page, settings, fs, adapter, client, created>>

-----------------------------------------------------------------------------
(* delete                                                                  *)

\* DeleteArgsMissing rejecting both selectors rather than neither
DeleteArgsBoth(ids, filters) == ~IsNone(ids) /\ ~IsNone(filters)

\* if ids is None and filters is None: raise ValueError(...)
DeleteArgsMissing(ids, filters) == IsNone(ids) /\ IsNone(filters)

\* return max(0, pre_count - post_count)
\* DeletedCount without the clamp at 0
DeletedCountUnclamped(pre_count, post_count) == pre_count - post_count

DeletedCount(pre_count, post_count) == Max(0, pre_count - post_count)

\* DeleteByIds passing only the first id on
DeleteByIdsFirstOnly(cs, name, ids) ==
    IF Truthy(ids) THEN EngineDeleteIds(cs, name, <<Val(ids)[1]>>) ELSE cs

\* if ids: await self.client.delete(points_selector=PointIdsList(points=ids))
DeleteByIds(cs, name, ids) ==
    IF Truthy(ids) THEN EngineDeleteIds(cs, name, Val(ids)) ELSE cs

\* DeleteByFilter with the filter's condition negated
DeleteByFilterInverted(cs, name, filters) ==
    IF Truthy(filters)
    THEN EngineSetPoints(cs, name, {p \in Points(cs, name) : Matches(p, Val(filters))})
    ELSE cs

\* if filters: await self.client.delete(points_selector=FilterSelector(...))
DeleteByFilter(cs, name, filters) ==
    IF Truthy(filters) THEN EngineDeleteWhere(cs, name, Val(filters)) ELSE cs

QdrantDelete(cl, cs, name, ids, filters) ==
    IF DeleteArgsMissing(ids, filters) THEN Answer("InvalidArgument", Null, cs, <<>>)
    \* self.client is None: self.client.get_collection raises AttributeError
    ELSE IF cl = NoClient THEN Answer("AttributeError", Null, cs, <<>>)
    \* the engine's 404 is not caught
    ELSE IF ~EngineHas(cs, name)
         THEN Answer("UnexpectedResponse", Null, cs, <<"get_collection">>)
    ELSE LET pre_count == PointsCount(cs, name)
             cs1 == DeleteByIds(cs, name, ids)
             cs2 == DeleteByFilter(cs1, name, filters)
             post_count == PointsCount(cs2, name)
         IN Answer("ok", DeletedCount(pre_count, post_count), cs2,
                   <<"get_collection">>
                     \o (IF Truthy(ids) THEN <<"delete">> ELSE <<>>)
                     \o (IF Truthy(filters) THEN <<"delete">> ELSE <<>>)
                     \o <<"get_collection">>)

ChromaDelete(cl, cs, name, ids, filters) ==
    IF cl = NoClient THEN Answer("NotInitialized", Null, cs, <<>>)
    ELSE IF IsNone(ids) /\ IsNone(filters)
         THEN Answer("InvalidArgument", Null, cs, <<>>)
    ELSE IF ~EngineHas(cs, name) THEN Answer("NotFound", Null, cs, <<>>)
    ELSE LET cs1 == IF Truthy(ids) THEN EngineDeleteIds(cs, name, Val(ids)) ELSE cs
             cs2 == IF Truthy(filters)
                    THEN EngineDeleteWhere(cs1, name, Val(filters)) ELSE cs1
         IN Answer("ok", Cardinality(Points(cs, name) \ Points(cs2, name)), cs2,
                   (IF Truthy(ids) THEN <<"delete">> ELSE <<>>)
                     \o (IF Truthy(filters) THEN <<"delete">> ELSE <<>>))

Delete ==
    \E name \in Names, ids \in {None} \cup {Some(l) : l \in IdLists},
       filters \in {None} \cup {Some(f) : f \in Filters} :
        LET r == IF adapter = "embedded"
                 THEN ChromaDelete(client, colls, name, ids, filters)
                 ELSE QdrantDelete(client, colls, name, ids, filters)
        IN /\ colls' = r.colls
           /\ last' = Call("delete", [name |-> name, ids |-> ids, filters |-> filters],
                           r.outcome, r.ret, r.calls, colls)
           /\ UNCHANGED <<tasks, page, settings, fs, adapter, client, created>>

-----------------------------------------------------------------------------
(* deleteCollection, collectionExists, count                               *)

DropCollection(cl, cs, name) ==
    IF cl = NoClient THEN Answer("NotInitialized", Null, cs, <<>>)
    ELSE IF ~EngineHas(cs, name) THEN Answer("NotFound", Null, cs, <<>>)
    ELSE Answer("ok", Null, EngineDrop(cs, name), <<"delete_collection">>)

DeleteCollection ==
    \E name \in Names :
        LET r == DropCollection(client, colls, name)
        IN /\ colls' = r.colls
           /\ last' = Call("deleteCollection", [name |-> name],
                           r.outcome, r.ret, r.calls, colls)
           /\ created' = IF r.outcome = "ok"
                         THEN [created EXCEPT ![name] = None] ELSE created
           /\ UNCHANGED <<tasks, page, settings, fs, adapter, client>>

\* collection_exists(): checks via list_collections()
ExistsAnswer(cl, cs, name) ==
    IF cl = NoClient THEN Answer("NotInitialized", Null, cs, <<>>)
    ELSE Answer("ok", EngineHas(cs, name), cs, <<"list_collections">>)

CollectionExists ==
    \E name \in Names :
        LET r == ExistsAnswer(client, colls, name)
        IN /\ last' = Call("collectionExists", [name |-> name],
                           r.outcome, r.ret, r.calls, colls)
           /\ UNCHANGED <<tasks, page, settings, fs, adapter, client, colls, created>>

CountAnswer(cl, cs, name) ==
    IF cl = NoClient THEN Answer("NotInitialized", Null, cs, <<>>)
    ELSE IF ~EngineHas(cs, name) THEN Answer("NotFound", Null, cs, <<>>)
    ELSE Answer("ok", PointsCount(cs, name), cs, <<"count">>)

Count ==
    \E name \in Names :
        LET r == CountAnswer(client, colls, name)
        IN /\ last' = Call("count", [name |-> name], r.outcome, r.ret, r.calls, colls)
           /\ UNCHANGED <<tasks, page, settings, fs, adapter, client, colls, created>>

-----------------------------------------------------------------------------
(* getCollectionInfo                                                       *)

\* strings the adapter searches in, as character sequences
StrCosine == <<"c", "o", "s", "i", "n", "e">>
StrEuclid == <<"e", "u", "c", "l", "i", "d">>
StrEuclidean == StrEuclid \o <<"e", "a", "n">>
StrDot == <<"d", "o", "t">>
StrDistancePrefix == <<"d", "i", "s", "t", "a", "n", "c", "e", ".">>
\* the standard metric names as character sequences
Chars(metric) ==
    CASE metric = "cosine" -> StrCosine
      [] metric = "euclidean" -> StrEuclidean
      [] metric = "dot" -> StrDot

\* Python's `sub in s`
Contains(sub, s) ==
    \E i \in 0..(Len(s) - Len(sub)) : SubSeq(s, i + 1, i + Len(sub)) = sub

\* str(config.distance).lower(): "distance.cosine", "distance.euclid", "distance.dot"
DistanceStrLower(distance) ==
    StrDistancePrefix \o
        (CASE distance = "COSINE" -> StrCosine
           [] distance = "EUCLID" -> StrEuclid
           [] distance = "DOT" -> StrDot)

\* if "cosine" in distance_metric: ...; if "euclid" in distance_metric: ...
MapBack(distance_metric) ==
    LET m1 == IF Contains(StrCosine, distance_metric) THEN StrCosine
              ELSE distance_metric
    IN IF Contains(StrEuclid, m1) THEN StrEuclidean ELSE m1

CollectionInfo(name, dimension, vector_count, distance_metric) ==
    [name |-> name, dimension |-> dimension, vector_count |-> vector_count,
     distance_metric |-> distance_metric]

\* any exception (client None, engine 404) is caught: return None
QdrantGetCollectionInfo(cl, cs, name) ==
    IF cl = NoClient THEN Answer("ok", None, cs, <<>>)
    ELSE IF ~EngineHas(cs, name) THEN Answer("ok", None, cs, <<"get_collection">>)
    ELSE LET info == EngineGet(cs, name)
         IN Answer("ok",
                   Some(CollectionInfo(name, info.dimension, Cardinality(info.points),
                                       MapBack(DistanceStrLower(info.metric)))),
                   cs, <<"get_collection">>)

\* the standard name of an "hnsw:space" value
ChromaMetricName(space) ==
    CASE space = "cosine" -> StrCosine
      [] space = "l2" -> StrEuclidean
      [] space = "ip" -> StrDot

\* reads "dimension" and "hnsw:space" back from the collection's metadata
ChromaGetCollectionInfo(cl, cs, name) ==
    IF cl = NoClient THEN Answer("NotInitialized", Null, cs, <<>>)
    ELSE IF ~EngineHas(cs, name) THEN Answer("ok", None, cs, <<"get_collection">>)
    ELSE LET info == EngineGet(cs, name)
         IN Answer("ok",
                   Some(CollectionInfo(name, info.dimension, Cardinality(info.points),
                                       ChromaMetricName(info.metric))),
                   cs, <<"get_collection">>)

GetCollectionInfo ==
    \E name \in Names :
        LET r == IF adapter = "embedded"
                 THEN ChromaGetCollectionInfo(client, colls, name)
                 ELSE QdrantGetCollectionInfo(client, colls, name)
        IN /\ last' = Call("getCollectionInfo", [name |-> name],
                           r.outcome, r.ret, r.calls, colls)
           /\ UNCHANGED <<tasks, page, settings, fs, adapter, client, colls, created>>

-----------------------------------------------------------------------------
(* search                                                                  *)

\* the permutations of 1..n
Perms(n) == {f \in [1..n -> 1..n] : \A i, j \in 1..n : i # j => f[i] # f[j]}
Take(s, n) == SubSeq(s, 1, Min(n, Len(s)))
\* the arrangements of the set S in which no element comes before a strictly
\* better one (better: the pairs <<x, y>> with x strictly better than y): an
\* engine's ranking, its order among equals left open
Rankings(S, better) ==
    {s \in [1..Cardinality(S) -> S] :
        /\ \A i, j \in DOMAIN s : i # j => s[i] # s[j]
        /\ \A i, j \in DOMAIN s : i < j => <<s[j], s[i]>> \notin better}

\* the embedded engine's raw distance under an "hnsw:space"
ChromaDistance(space, q, v) ==
    CASE space = "cosine" ->
            Rat(Norm(q) * Norm(v) - Dot(q, v), Norm(q) * Norm(v))
      [] space = "l2" -> Rat(SqDist(q, v), 1)
      [] space = "ip" -> Rat(-Dot(q, v), 1)

\* the remote engine's score, normalized to [0,1] by the engine
QdrantScore(distance, q, v) ==
    CASE distance = "COSINE" ->
            Rat(Norm(q) * Norm(v) + Dot(q, v), 2 * Norm(q) * Norm(v))
      [] distance = "EUCLID" -> Rat(1, 1 + SqDist(q, v))
      [] distance = "DOT" -> RMax(Zero, RMin(One, Rat(Dot(q, v), 1)))

\* _distance_to_score without the clamps
DistanceToScoreUnclamped(distance, metric) ==
    CASE metric = "cosine" -> RSub(One, RHalf(distance))
      [] metric = "l2" -> RInv(RAdd(One, distance))
      [] metric = "ip" -> RNeg(distance)
      [] OTHER -> None

\* DistanceToScore with the cosine score rising with the distance
DistanceToScoreRising(distance, metric) ==
    CASE metric = "cosine" -> RMax(Zero, RMin(One, RHalf(distance)))
      [] metric = "l2" -> RInv(RAdd(One, distance))
      [] metric = "ip" -> RMax(Zero, RMin(One, RNeg(distance)))
      [] OTHER -> None

\* ChromaVectorDB._distance_to_score
DistanceToScore(distance, metric) ==
    CASE metric = "cosine" -> RMax(Zero, RMin(One, RSub(One, RHalf(distance))))
      [] metric = "l2" -> RInv(RAdd(One, distance))
      [] metric = "ip" -> RMax(Zero, RMin(One, RNeg(distance)))
      [] OTHER -> None

VectorSearchResult(id, score, payload) ==
    [id |-> id, score |-> score, payload |-> payload]

\* a result list in the contract's order: score descending, then id ascending
InContractOrder(rs) ==
    \A i \in 1..(Len(rs) - 1) :
        \/ RLt(rs[i + 1].score, rs[i].score)
        \/ /\ REq(rs[i + 1].score, rs[i].score)
           /\ IdRank(rs[i].id) <= IdRank(rs[i + 1].id)
SortResults(rs) ==
    LET p == CHOOSE f \in Perms(Len(rs)) :
                 InContractOrder([i \in DOMAIN rs |-> rs[f[i]]])
    IN [i \in DOMAIN rs |-> rs[p[i]]]

AtLeast(r, score_threshold) ==
    IsNone(score_threshold) \/ RLe(Val(score_threshold), r.score)
Keep(rs, score_threshold) ==
    LET Test(r) == AtLeast(r, score_threshold) IN SelectSeq(rs, Test)

\* ChromaQuery cutting one result short of n_results
ChromaQueryOffByOne(coll, q, limit, filters) ==
    LET hits == {[id |-> p.id, payload |-> p.payload,
                  distance |-> ChromaDistance(coll.metric, q, p.vector)] :
                    p \in {x \in coll.points :
                              IsNone(filters) \/ Matches(x, Val(filters))}}
        nearer == {hg \in hits \X hits : RLt(hg[1].distance, hg[2].distance)}
    IN {Take(s, limit - 1) : s \in Rankings(hits, nearer)}

\* coll.query(query_embeddings, n_results=limit, where=filters): the matching
\* points nearest first, cut to n_results
ChromaQuery(coll, q, limit, filters) ==
    LET hits == {[id |-> p.id, payload |-> p.payload,
                  distance |-> ChromaDistance(coll.metric, q, p.vector)] :
                    p \in {x \in coll.points :
                              IsNone(filters) \/ Matches(x, Val(filters))}}
        nearer == {hg \in hits \X hits : RLt(hg[1].distance, hg[2].distance)}
    IN {Take(s, limit) : s \in Rankings(hits, nearer)}

\* ProcessResults holding the threshold against the raw distance
ProcessResultsRawThreshold(hits, space, score_threshold) ==
    LET Test(h) == IsNone(score_threshold) \/ RLe(Val(score_threshold), h.distance)
        kept == SelectSeq(hits, Test)
    IN SortResults([i \in DOMAIN kept |->
                      VectorSearchResult(kept[i].id,
                                         DistanceToScore(kept[i].distance, space),
                                         kept[i].payload)])

\* _process_results: distances to scores, the threshold, the contract's order
ProcessResults(hits, space, score_threshold) ==
    SortResults(Keep([i \in DOMAIN hits |->
                        VectorSearchResult(hits[i].id,
                                           DistanceToScore(hits[i].distance, space),
                                           hits[i].payload)],
                     score_threshold))

\* the remote engine's query: the matching points scoring at least the
\* threshold, best first, cut to limit
QdrantQuery(coll, q, limit, filters, score_threshold) ==
    LET hits == {h \in {[id |-> p.id, payload |-> p.payload,
                         score |-> QdrantScore(coll.metric, q, p.vector)] :
                           p \in {x \in coll.points :
                                     IsNone(filters) \/ Matches(x, Val(filters))}} :
                    AtLeast(h, score_threshold)}
        higher == {hg \in hits \X hits : RLt(hg[2].score, hg[1].score)}
    IN {Take(s, limit) : s \in Rankings(hits, higher)}

\* [VectorSearchResult(id=str(result.id), score=result.score, ...)
\*  for result in results.points]
ToSearchResults(points) ==
    [i \in DOMAIN points |->
        VectorSearchResult(points[i].id, points[i].score, points[i].payload)]

SearchGuard(cl, cs, name, q) ==
    IF cl = NoClient THEN "NotInitialized"
    ELSE IF ~EngineHas(cs, name) THEN "NotFound"
    ELSE IF Len(q) # EngineGet(cs, name).dimension THEN "DimensionMismatch"
    ELSE "ok"

\* the answers search may give: one per order the engine may rank equals in
ChromaSearch(cl, cs, name, q, limit, filters, score_threshold) ==
    IF SearchGuard(cl, cs, name, q) # "ok"
    THEN {Answer(SearchGuard(cl, cs, name, q), Null, cs, <<>>)}
    ELSE {Answer("ok", ProcessResults(hits, EngineGet(cs, name).metric, score_threshold),
                 cs, <<"query">>) :
            hits \in ChromaQuery(EngineGet(cs, name), q, limit, filters)}

QdrantSearch(cl, cs, name, q, limit, filters, score_threshold) ==
    IF SearchGuard(cl, cs, name, q) # "ok"
    THEN {Answer(SearchGuard(cl, cs, name, q), Null, cs, <<>>)}
    ELSE {Answer("ok", ToSearchResults(points), cs, <<"query_points">>) :
            points \in QdrantQuery(EngineGet(cs, name), q, limit, filters,
                                   score_threshold)}

SearchWith(Queries, Thresholds) ==
    \E name \in Names, q \in Queries, limit \in 1..MaxLimit,
       filters \in {None} \cup {Some(<<t>>) : t \in Tags},
       score_threshold \in Thresholds :
        \E r \in IF adapter = "embedded"
                 THEN ChromaSearch(client, colls, name, q, limit, filters,
                                   score_threshold)
                 ELSE QdrantSearch(client, colls, name, q, limit, filters,
                                   score_threshold) :
           /\ last' = Call("search",
                           [name |-> name, query_vector |-> q, limit |-> limit,
                            filters |-> filters, score_threshold |-> score_threshold],
                           r.outcome, r.ret, r.calls, colls)
           /\ UNCHANGED <<tasks, page, settings, fs, adapter, client, colls, created>>

Search == SearchWith(Vectors, {None})

-----------------------------------------------------------------------------
(* The factory get_vector_db and its configuration validators              *)

\* Python truthiness of an Optional[str]: neither None nor ""
IsSet(x) == x # Null /\ x # ""

ValidModes == {"local", "cloud", "hybrid"}
McpModes == ValidModes \cup {"invalid"}
ModeArgs == {Null, ""} \cup McpModes
PersistDirs == {"", "./data/chroma"}
QdrantUrls == {Null, "", "https://xxx.cloud.qdrant.io"}
QdrantApiKeys == {Null, "test-key"}
QdrantHosts == {Null, "localhost"}
QdrantPorts == {-1, 6333}
SettingsSpace ==
    [mcp_mode : McpModes, chroma_persist_directory : PersistDirs,
     qdrant_url : QdrantUrls, qdrant_api_key : QdrantApiKeys,
     qdrant_host : QdrantHosts, qdrant_port : QdrantPorts]
\* the settings of the factory's first test: local mode, ./data/chroma
DefaultSettings ==
    [mcp_mode |-> "local", chroma_persist_directory |-> "./data/chroma",
     qdrant_url |-> Null, qdrant_api_key |-> Null,
     qdrant_host |-> "localhost", qdrant_port |-> 6333]

\* the parent directory of the persist path: absent, present and read-only,
\* or present and writable
FsStates == {"missing", "readonly", "writable"}
\* os.path.exists(parent_dir)
PathExists(f) == f # "missing"
\* os.access(parent_dir, os.W_OK)
AccessWrite(f) == f = "writable"

\* _validate_chroma_config: "ok", or the remedy its error message names
ValidateChromaConfig(st, f) ==
    IF ~IsSet(st.chroma_persist_directory)
    THEN "Set DOCVECTOR_CHROMA_PERSIST_DIRECTORY"
    ELSE IF PathExists(f) /\ ~AccessWrite(f) THEN "Check file permissions"
    ELSE "ok"

\* _validate_qdrant_config trying the self-hosted pair first
ValidateQdrantConfigHostFirst(st) ==
    IF IsSet(st.qdrant_host) /\ st.qdrant_port > 0 THEN "ok"
    ELSE IF IsSet(st.qdrant_url) /\ IsSet(st.qdrant_api_key) THEN "ok"
    ELSE IF IsSet(st.qdrant_url) THEN "Set DOCVECTOR_QDRANT_API_KEY"
    ELSE IF IsSet(st.qdrant_api_key) THEN "Set DOCVECTOR_QDRANT_URL"
    ELSE IF ~IsSet(st.qdrant_host)
         THEN "Set DOCVECTOR_QDRANT_HOST or DOCVECTOR_QDRANT_URL"
    ELSE "Must be a positive integer"

\* _validate_qdrant_config: "ok", or the remedy its error message names
ValidateQdrantConfig(st) ==
    IF IsSet(st.qdrant_url) /\ IsSet(st.qdrant_api_key) THEN "ok"
    ELSE IF IsSet(st.qdrant_url) THEN "Set DOCVECTOR_QDRANT_API_KEY"
    ELSE IF IsSet(st.qdrant_api_key) THEN "Set DOCVECTOR_QDRANT_URL"
    ELSE IF ~IsSet(st.qdrant_host)
         THEN "Set DOCVECTOR_QDRANT_HOST or DOCVECTOR_QDRANT_URL"
    ELSE IF st.qdrant_port <= 0 THEN "Must be a positive integer"
    ELSE "ok"

\* ChromaVectorDB.__init__ opening its client at once
ChromaVectorDBEager(st, persist_directory) ==
    [kind |-> "embedded",
     persist_directory |-> IF IsSet(persist_directory) THEN persist_directory
                           ELSE st.chroma_persist_directory,
     client |-> NewHandle(NoClient)]

\* ChromaVectorDB.__init__: the argument, or else the setting; self._client = None
ChromaVectorDB(st, persist_directory) ==
    [kind |-> "embedded",
     persist_directory |-> IF IsSet(persist_directory) THEN persist_directory
                           ELSE st.chroma_persist_directory,
     client |-> NoClient]

\* QdrantVectorDB.__init__: each argument, or else the setting (port is an
\* Optional[int]); self.client = None
QdrantVectorDB(st, host, port, url, api_key) ==
    [kind |-> "remote",
     url |-> IF IsSet(url) THEN url ELSE st.qdrant_url,
     api_key |-> IF IsSet(api_key) THEN api_key ELSE st.qdrant_api_key,
     host |-> IF IsSet(host) THEN host ELSE st.qdrant_host,
     port |-> IF ~IsNone(port) /\ Val(port) # 0 THEN Val(port) ELSE st.qdrant_port,
     client |-> NoClient]

\* effective_mode = mode or settings.mcp_mode
EffectiveMode(mode, st) == IF IsSet(mode) THEN mode ELSE st.mcp_mode

FactoryAnswer(outcome, ret, calls) ==
    [outcome |-> outcome, ret |-> ret, calls |-> calls]

\* get_vector_db(mode): the outcome, the adapter object or the error's remedy,
\* and the validators and constructors it ran
GetVectorDb(mode, st, f) ==
    LET effective_mode == EffectiveMode(mode, st) IN
    IF effective_mode \notin ValidModes
    THEN FactoryAnswer("InvalidArgument", Null, <<>>)
    ELSE IF effective_mode = "local"
    THEN IF ValidateChromaConfig(st, f) # "ok"
         THEN FactoryAnswer("ConfigurationError", ValidateChromaConfig(st, f),
                            <<"_validate_chroma_config">>)
         ELSE FactoryAnswer("ok", ChromaVectorDB(st, st.chroma_persist_directory),
                            <<"_validate_chroma_config", "ChromaVectorDB">>)
    ELSE IF ValidateQdrantConfig(st) # "ok"
         THEN FactoryAnswer("ConfigurationError", ValidateQdrantConfig(st),
                            <<"_validate_qdrant_config">>)
    ELSE IF IsSet(st.qdrant_url) /\ IsSet(st.qdrant_api_key)
         THEN FactoryAnswer("ok",
                            QdrantVectorDB(st, Null, None, st.qdrant_url,
                                           st.qdrant_api_key),
                            <<"_validate_qdrant_config", "QdrantVectorDB">>)
    ELSE FactoryAnswer("ok",
                       QdrantVectorDB(st, st.qdrant_host, Some(st.qdrant_port),
                                      Null, Null),
                       <<"_validate_qdrant_config", "QdrantVectorDB">>)

\* a call of the factory: the adapter it returns becomes the adapter
Factory ==
    \E mode \in ModeArgs :
        LET r == GetVectorDb(mode, settings, fs)
        IN /\ adapter' = IF r.outcome = "ok" THEN r.ret.kind ELSE adapter
           /\ client' = IF r.outcome = "ok" THEN r.ret.client ELSE client
           /\ last' = Call("get_vector_db", [name |-> Null, mode |-> mode],
                           r.outcome, r.ret, r.calls, colls)
           /\ UNCHANGED <<tasks, page, colls, created, settings, fs>>

-----------------------------------------------------------------------------
(* The hybrid scorer: fuses the vector results of a search with the        *)
(* keyword results of the lexical index into one ranked list               *)

RMul(a, b) == Rat(a[1] * b[1], a[2] * b[2])

\* a score a list lacks, imputed as a neutral one half
ScoreOfImputed(results, id) ==
    IF \E i \in DOMAIN results : results[i].id = id
    THEN results[CHOOSE i \in DOMAIN results : results[i].id = id].score
    ELSE Rat(1, 2)

\* the score a result list gives an id: zero when the list lacks the id
ScoreOf(results, id) ==
    IF \E i \in DOMAIN results : results[i].id = id
    THEN results[CHOOSE i \in DOMAIN results : results[i].id = id].score
    ELSE Zero

\* combined(id) = w_v * vectorScore(id) + w_k * keywordScore(id)
Combined(id, vector_results, keyword_results, w_v, w_k) ==
    RAdd(RMul(w_v, ScoreOf(vector_results, id)),
         RMul(w_k, ScoreOf(keyword_results, id)))

ResultIds(results) == {results[i].id : i \in DOMAIN results}
\* the payload of a fused entry: the vector result's when there is one
FusedPayload(id, vector_results, keyword_results) ==
    LET from == IF id \in ResultIds(vector_results) THEN vector_results
                ELSE keyword_results
    IN from[CHOOSE i \in DOMAIN from : from[i].id = id].payload

\* HybridFuse keeping the entries below the floor
HybridFuseNoFloor(vector_results, keyword_results, w_v, w_k, limit, floor) ==
    LET ids == ResultIds(vector_results) \cup ResultIds(keyword_results)
        merged == {VectorSearchResult(
                       id, Combined(id, vector_results, keyword_results, w_v, w_k),
                       FusedPayload(id, vector_results, keyword_results)) :
                     id \in ids}
        listed == CHOOSE q \in [1..Cardinality(merged) -> merged] :
                      \A i, j \in DOMAIN q : i # j => q[i] # q[j]
    IN Take(SortResults(listed), limit)

\* the fused list: one entry per id, best first and by id among equals, cut
\* to limit, without the entries below the floor
HybridFuse(vector_results, keyword_results, w_v, w_k, limit, floor) ==
    LET ids == ResultIds(vector_results) \cup ResultIds(keyword_results)
        merged == {VectorSearchResult(
                       id, Combined(id, vector_results, keyword_results, w_v, w_k),
                       FusedPayload(id, vector_results, keyword_results)) :
                     id \in ids}
        listed == CHOOSE q \in [1..Cardinality(merged) -> merged] :
                      \A i, j \in DOMAIN q : i # j => q[i] # q[j]
        AboveFloor(r) == RLe(floor, r.score)
    IN SelectSeq(Take(SortResults(listed), limit), AboveFloor)

\* DOCVECTOR_SEARCH_VECTOR_WEIGHT=0.7, DOCVECTOR_SEARCH_KEYWORD_WEIGHT=0.3
DefaultWeights == <<Rat(7, 10), Rat(3, 10)>>
Weights == {DefaultWeights, <<One, One>>}
HybridScores == {Rat(5, 10), Rat(8, 10), Rat(9, 10)}
Floors == {Zero, Rat(1, 2)}
\* the ranked lists of one subsystem: distinct ids, each with a score
ResultLists(payload) ==
    {q \in UNION {[1..k -> [id : Ids, score : HybridScores, payload : {payload}]] :
                     k \in 0..Cardinality(Ids)} :
        \A i, j \in DOMAIN q : i # j => q[i].id # q[j].id}

\* a response of the hybrid search: outcome, fused list, degraded mark
HybridResponse(outcome, ret, degraded) ==
    [outcome |-> outcome, ret |-> ret, degraded |-> degraded]

\* HybridAnswer failing when the keyword subsystem is unavailable
HybridAnswerHardFailure(vector_available, vector_results, keyword_available, keyword_results, w_v, w_k, limit, floor) ==
    IF ~vector_available \/ ~keyword_available
    THEN HybridResponse("BackendUnavailable", Null, FALSE)
    ELSE HybridResponse("ok",
                        HybridFuse(vector_results, keyword_results, w_v, w_k,
                                   limit, floor),
                        FALSE)

\* the hybrid search over its two subsystems: the vector subsystem is
\* mandatory; without the keyword subsystem the answer is the vector-only
\* ranking, marked degraded
HybridAnswer(vector_available, vector_results, keyword_available, keyword_results, w_v, w_k, limit, floor) ==
    IF ~vector_available THEN HybridResponse("BackendUnavailable", Null, FALSE)
    ELSE IF ~keyword_available
    THEN HybridResponse("ok",
                        HybridFuse(vector_results, <<>>, w_v, w_k, limit, floor),
                        TRUE)
    ELSE HybridResponse("ok",
                        HybridFuse(vector_results, keyword_results, w_v, w_k,
                                   limit, floor),
                        FALSE)

HybridSearch ==
    \E vector_available \in BOOLEAN, keyword_available \in BOOLEAN,
       w \in Weights, limit \in 1..MaxLimit, floor \in Floors :
      \E vector_results \in IF vector_available THEN ResultLists("x") ELSE {<<>>},
         keyword_results \in IF keyword_available THEN ResultLists("y") ELSE {<<>>} :
        LET r == HybridAnswer(vector_available, vector_results, keyword_available,
                              keyword_results, w[1], w[2], limit, floor)
        IN /\ last' = [op |-> "hybridSearch",
                       args |-> [name |-> Null,
                                 vector_available |-> vector_available,
                                 vector_results |-> vector_results,
                                 keyword_available |-> keyword_available,
                                 keyword_results |-> keyword_results,
                                 w_v |-> w[1], w_k |-> w[2],
                                 limit |-> limit, floor |-> floor],
                       outcome |-> r.outcome, ret |-> r.ret, calls |-> <<>>,
                       pre |-> colls, degraded |-> r.degraded]
           /\ UNCHANGED <<tasks, page, settings, fs, adapter, client, colls, created>>

-----------------------------------------------------------------------------

Init ==
    /\ tasks = NoTasks
    /\ page = NoPage
    /\ adapter \in Adapters
    /\ client = NoClient
    /\ colls = {}
    /\ last = Call("none", NoArgs, "ok", Null, <<>>, colls)
    /\ created = [name \in Names |-> None]
    /\ settings = DefaultSettings
    /\ fs = "writable"

Next ==
    \/ Initialize
    \/ Close
    \/ CreateCollection
    \/ DeleteCollection
    \/ CollectionExists
    \/ GetCollectionInfo
    \/ Upsert
    \/ Delete
    \/ Count
    \/ Search

Spec == Init /\ [][Next]_vars

-----------------------------------------------------------------------------
(* Search over populated collections: the collection is any set of points  *)
(* with distinct ids and vectors of the collection's dimension, which is   *)
(* what upserts leave; the only operation is search                        *)

\* vectors of one length; every norm is an integer
SearchVectors == {<<1, 0>>, <<-1, 0>>, <<0, 2>>}
SearchDimensions == {Len(v) : v \in SearchVectors}
SearchQueries == SearchVectors \cup {<<1>>}
SearchThresholds == {None, Some(Rat(1, 2))}
SearchIds == {IdOrder[i] : i \in DOMAIN IdOrder}
\* the point sets: each id absent, or present with one vector and one tag
PointSets ==
    {{[id |-> id, vector |-> f[id][1], payload |-> f[id][2]] :
         id \in {x \in SearchIds : f[x] # None}} :
        f \in [SearchIds -> {None} \cup (SearchVectors \X Tags)]}
SearchInit ==
    /\ tasks = NoTasks
    /\ page = NoPage
    /\ adapter \in Adapters
    /\ client = NewHandle(NoClient)
    /\ \E name \in Names, dimension \in SearchDimensions,
          metric \in StandardMetrics, pts \in PointSets :
          /\ colls = {[name |-> name, dimension |-> dimension,
                       metric |-> IF adapter = "embedded" THEN ChromaMetricMap(metric)
                                  ELSE QdrantDistanceMap(metric),
                       points |-> pts]}
          /\ created = [n \in Names |->
                          IF n = name
                          THEN Some([dimension |-> dimension, metric |-> metric])
                          ELSE None]
    /\ last = Call("none", NoArgs, "ok", Null, <<>>, colls)
    /\ settings = DefaultSettings
    /\ fs = "writable"

\* one search per drawn collection
SearchNext == last.op = "none" /\ SearchWith(SearchQueries, SearchThresholds)

SearchSpec == SearchInit /\ [][SearchNext]_vars

-----------------------------------------------------------------------------
(* The factory over every configuration: the settings and the filesystem   *)
(* are drawn, no adapter exists yet, and the only operation is one call    *)
(* of get_vector_db                                                        *)

FactoryInit ==
    /\ tasks = NoTasks
    /\ page = NoPage
    /\ settings \in SettingsSpace
    /\ fs \in FsStates
    /\ adapter = Null
    /\ client = NoClient
    /\ colls = {}
    /\ created = [name \in Names |-> None]
    /\ last = Call("none", NoArgs, "ok", Null, <<>>, colls)

FactoryNext == last.op = "none" /\ Factory

FactorySpec == FactoryInit /\ [][FactoryNext]_vars

-----------------------------------------------------------------------------
(* The hybrid scorer over every pair of result lists: the only operation   *)
(* is one fusion                                                           *)

HybridInit ==
    /\ tasks = NoTasks
    /\ page = NoPage
    /\ settings = DefaultSettings
    /\ fs = "writable"
    /\ adapter \in Adapters
    /\ client = NewHandle(NoClient)
    /\ colls = {}
    /\ created = [name \in Names |-> None]
    /\ last = Call("none", NoArgs, "ok", Null, <<>>, colls)

HybridNext == last.op = "none" /\ HybridSearch

HybridSpec == HybridInit /\ [][HybridNext]_vars

-----------------------------------------------------------------------------
(* The remote delete among concurrent writers: QdrantVectorDB.delete is    *)
(* suspended at each of its engine calls, and the upserts of other writers *)
(* reach the engine in between                                             *)

MaxWrites == 2
RaceVectors == {<<1>>}
RaceRecords == [id : Ids, vector : RaceVectors, payload : Tags]
RacePointSets == {S \in SUBSET RaceRecords : \A p, q \in S : p.id = q.id => p = q}
RaceBatches == SeqsUpTo(RaceRecords, 1) \ {<<>>}

\* the delete in flight: its position, its arguments, its local variables
\* pre_count and post_count; what its engine calls removed (removed), the
\* points before and after its filter call, and the upserts of other writers
\* since its first count (interleaved) are kept for the properties
DeleteTask(pc, ids, filters, writes) ==
    [pc |-> pc, name |-> "docs", ids |-> ids, filters |-> filters,
     pre_count |-> 0, post_count |-> 0, removed |-> {},
     filter_before |-> {}, filter_after |-> {},
     interleaved |-> 0, writes |-> writes]

Suspended(t) == t.pc \in {"counted", "ids_done", "filter_done"}

\* the argument check, then pre_info = await self.client.get_collection(...)
DeleteCountBefore ==
    /\ tasks.pc = "idle"
    /\ \E ids \in {None, Some(<<"a">>)},
          filters \in {None} \cup {Some(f) : f \in Filters} :
          IF DeleteArgsMissing(ids, filters)
          THEN /\ tasks' = DeleteTask("done", ids, filters, tasks.writes)
               /\ last' = Call("delete", [name |-> "docs", ids |-> ids,
                                          filters |-> filters],
                               "InvalidArgument", Null, <<>>, colls)
          ELSE /\ tasks' = [DeleteTask("counted", ids, filters, tasks.writes)
                              EXCEPT !.pre_count = PointsCount(colls, "docs")]
               /\ UNCHANGED last
    /\ UNCHANGED <<page, settings, fs, adapter, client, colls, created>>

\* if ids: await self.client.delete(points_selector=PointIdsList(...))
DeleteIdsStep ==
    /\ tasks.pc = "counted"
    /\ colls' = DeleteByIds(colls, tasks.name, tasks.ids)
    /\ tasks' = [tasks EXCEPT !.pc = "ids_done",
                              !.removed = @ \cup (Points(colls, tasks.name)
                                                    \ Points(colls', tasks.name))]
    /\ UNCHANGED <<page, settings, fs, adapter, client, last, created>>

\* if filters: await self.client.delete(points_selector=FilterSelector(...))
DeleteFilterStep ==
    /\ tasks.pc = "ids_done"
    /\ colls' = DeleteByFilter(colls, tasks.name, tasks.filters)
    /\ tasks' = [tasks EXCEPT !.pc = "filter_done",
                              !.filter_before = Points(colls, tasks.name),
                              !.filter_after = Points(colls', tasks.name),
                              !.removed = @ \cup (Points(colls, tasks.name)
                                                    \ Points(colls', tasks.name))]
    /\ UNCHANGED <<page, settings, fs, adapter, client, last, created>>

\* post_info = await self.client.get_collection(...); return max(0, pre - post)
DeleteCountAfter ==
    /\ tasks.pc = "filter_done"
    /\ tasks' = [tasks EXCEPT !.pc = "done",
                              !.post_count = PointsCount(colls, tasks.name)]
    /\ last' = Call("delete", [name |-> tasks.name, ids |-> tasks.ids,
                               filters |-> tasks.filters],
                    "ok", DeletedCount(tasks.pre_count, PointsCount(colls, tasks.name)),
                    <<"get_collection">>
                      \o (IF Truthy(tasks.ids) THEN <<"delete">> ELSE <<>>)
                      \o (IF Truthy(tasks.filters) THEN <<"delete">> ELSE <<>>)
                      \o <<"get_collection">>,
                    colls)
    /\ UNCHANGED <<page, settings, fs, adapter, client, colls, created>>

\* another writer's upsert reaches the engine
WriterUpsert ==
    /\ tasks.writes < MaxWrites
    /\ \E records \in RaceBatches :
          colls' = EngineUpsert(colls, tasks.name, ToPoints(records))
    /\ tasks' = [tasks EXCEPT !.writes = @ + 1,
                              !.interleaved = IF Suspended(tasks) THEN @ + 1 ELSE @]
    /\ UNCHANGED <<page, settings, fs, adapter, client, last, created>>

DeleteRaceInit ==
    /\ tasks = DeleteTask("idle", None, None, 0)
    /\ page = NoPage
    /\ adapter = "remote"
    /\ client = NewHandle(NoClient)
    /\ \E pts \in RacePointSets :
          colls = {[name |-> "docs", dimension |-> 1,
                    metric |-> QdrantDistanceMap("cosine"), points |-> pts]}
    /\ created = [n \in Names |-> Some([dimension |-> 1, metric |-> "cosine"])]
    /\ last = Call("none", NoArgs, "ok", Null, <<>>, colls)
    /\ settings = DefaultSettings
    /\ fs = "writable"

DeleteRaceNext ==
    \/ DeleteCountBefore
    \/ DeleteIdsStep
    \/ DeleteFilterStep
    \/ DeleteCountAfter
    \/ WriterUpsert

DeleteRaceSpec == DeleteRaceInit /\ [][DeleteRaceNext]_vars

-----------------------------------------------------------------------------
(* The embedded adapter among concurrent callers: every operation hands    *)
(* its blocking chromadb function to asyncio.to_thread and awaits it; the  *)
(* function runs in a thread of the pool until the call completes          *)

Callers == {1, 2}
WriteOps == {"createCollection", "deleteCollection", "upsert", "delete"}
ReadOps == {"search", "count", "getCollectionInfo", "collectionExists"}

\* a caller's call: its operation, its position, its batch if it is an upsert
ThreadTask(op, pc, records) == [op |-> op, pc |-> pc, records |-> records]
IdleTask == ThreadTask("none", "idle", <<>>)

\* the answers of the embedded adapter's operations on the collection "docs"
EmbeddedCall(op, cl, cs, records) ==
    CASE op = "createCollection" -> {ChromaCreateCollection(cl, cs, "docs", 1, "cosine")}
      [] op = "deleteCollection" -> {DropCollection(cl, cs, "docs")}
      [] op = "upsert" -> {ChromaUpsert(cl, cs, "docs", records)}
      [] op = "delete" -> {ChromaDelete(cl, cs, "docs", Some(<<"a">>), None)}
      [] op = "search" -> ChromaSearch(cl, cs, "docs", <<1>>, 1, None, None)
      [] op = "count" -> {CountAnswer(cl, cs, "docs")}
      [] op = "getCollectionInfo" -> {ChromaGetCollectionInfo(cl, cs, "docs")}
      [] op = "collectionExists" -> {ExistsAnswer(cl, cs, "docs")}

\* await asyncio.to_thread(fn, ...): fn starts in a pool thread; nothing in
\* the adapter makes the caller wait for another caller's function
Dispatch(t) ==
    /\ tasks[t].pc = "idle"
    /\ \E op \in WriteOps \cup ReadOps,
          records \in RaceBatches :
          /\ op # "upsert" => records = <<[id |-> "a", vector |-> <<1>>, payload |-> "x"]>>
          /\ tasks' = [tasks EXCEPT ![t] =
                          ThreadTask(op, "in_engine",
                                     IF op = "upsert" THEN records ELSE <<>>)]
    /\ UNCHANGED <<page, settings, fs, adapter, client, colls, last, created>>

\* the function returns and the awaiting caller resumes with its result
Complete(t) ==
    /\ tasks[t].pc = "in_engine"
    /\ \E r \in EmbeddedCall(tasks[t].op, client, colls, tasks[t].records) :
          /\ colls' = r.colls
          /\ last' = Call(tasks[t].op, [name |-> "docs"], r.outcome, r.ret,
                          r.calls, colls)
          /\ created' =
               IF r.outcome = "ok" /\ tasks[t].op = "createCollection"
               THEN [created EXCEPT !["docs"] =
                        Some([dimension |-> 1, metric |-> "cosine"])]
               ELSE IF r.outcome = "ok" /\ tasks[t].op = "deleteCollection"
               THEN [created EXCEPT !["docs"] = None]
               ELSE created
    /\ tasks' = [tasks EXCEPT ![t] = IdleTask]
    /\ UNCHANGED <<page, settings, fs, adapter, client>>

ThreadInit ==
    /\ tasks = [t \in Callers |-> IdleTask]
    /\ page = NoPage
    /\ adapter = "embedded"
    /\ client = NewHandle(NoClient)
    /\ colls = {}
    /\ created = [n \in Names |-> None]
    /\ last = Call("none", NoArgs, "ok", Null, <<>>, colls)
    /\ settings = DefaultSettings
    /\ fs = "writable"

ThreadNext == \E t \in Callers : Dispatch(t) \/ Complete(t)

ThreadSpec == ThreadInit /\ [][ThreadNext]_vars

-----------------------------------------------------------------------------
(* A cancelled upsert: the call is suspended while its request is with the *)
(* engine, and the caller may cancel it there                              *)

CancelBatches == SeqsUpTo(RaceRecords, MaxBatch)

\* RequestUnits sending one request per record
RequestUnitsPerRecord(records) == [i \in DOMAIN records |-> <<records[i]>>]

\* the engine requests an upsert makes: the whole batch in one request
RequestUnits(records) == <<records>>

\* the upsert in flight: its position, its batch, the points before it, the
\* requests still to send and the request that is with the engine
UpsertTask(pc, records, pre, units, in_flight) ==
    [pc |-> pc, name |-> "docs", records |-> records, pre |-> pre,
     units |-> units, in_flight |-> in_flight]

UpsertAnswer(records) ==
    IF adapter = "embedded" THEN ChromaUpsert(client, colls, "docs", records)
    ELSE QdrantUpsert(client, colls, "docs", records)

\* the call up to its first await: the checks, then the first request
UpsertCall ==
    /\ tasks.pc = "idle"
    /\ \E records \in CancelBatches :
          LET r == UpsertAnswer(records)
              units == RequestUnits(ToPoints(records))
          IN IF r.calls = <<>>
             THEN /\ tasks' = UpsertTask("done", records, Points(colls, "docs"),
                                         <<>>, None)
                  /\ last' = Call("upsert", [name |-> "docs", records |-> records],
                                  r.outcome, r.ret, r.calls, colls)
             ELSE /\ tasks' = UpsertTask("suspended", records, Points(colls, "docs"),
                                         Tail(units), Some(Head(units)))
                  /\ UNCHANGED last
    /\ UNCHANGED <<page, settings, fs, adapter, client, colls, created>>

\* the engine applies the request it holds, as one unit
EngineApply ==
    /\ ~IsNone(tasks.in_flight)
    /\ colls' = EngineUpsert(colls, tasks.name, Val(tasks.in_flight))
    /\ tasks' = [tasks EXCEPT !.in_flight = None]
    /\ UNCHANGED <<page, settings, fs, adapter, client, last, created>>

\* the awaited request has returned: the next request, or the return value
UpsertResume ==
    /\ tasks.pc = "suspended" /\ IsNone(tasks.in_flight)
    /\ IF tasks.units = <<>>
       THEN /\ tasks' = [tasks EXCEPT !.pc = "done"]
            /\ last' = Call("upsert", [name |-> tasks.name, records |-> tasks.records],
                            "ok", SubmittedCount(tasks.pre, tasks.records),
                            <<"upsert">>, colls)
       ELSE /\ tasks' = [tasks EXCEPT !.units = Tail(@),
                                      !.in_flight = Some(Head(tasks.units))]
            /\ UNCHANGED last
    /\ UNCHANGED <<page, settings, fs, adapter, client, colls, created>>

\* the caller cancels the suspended call: CancelledError is raised at its await
Cancel ==
    /\ tasks.pc = "suspended"
    /\ tasks' = [tasks EXCEPT !.pc = "cancelled"]
    /\ last' = Call("upsert", [name |-> tasks.name, records |-> tasks.records],
                    "CancelledError", Null, <<"upsert">>, colls)
    /\ UNCHANGED <<page, settings, fs, adapter, client, colls, created>>

\* the request of a cancelled remote call is dropped with its connection
\* before the server has taken it; a pool thread's call is never dropped
RequestLost ==
    /\ tasks.pc = "cancelled" /\ ~IsNone(tasks.in_flight)
    /\ adapter = "remote"
    /\ tasks' = [tasks EXCEPT !.in_flight = None]
    /\ UNCHANGED <<page, settings, fs, adapter, client, colls, last, created>>

CancelInit ==
    /\ tasks = UpsertTask("idle", <<>>, {}, <<>>, None)
    /\ page = NoPage
    /\ adapter \in Adapters
    /\ client = NewHandle(NoClient)
    /\ \E pts \in RacePointSets :
          colls = {[name |-> "docs", dimension |-> 1,
                    metric |-> IF adapter = "embedded" THEN ChromaMetricMap("cosine")
                               ELSE QdrantDistanceMap("cosine"),
                    points |-> pts]}
    /\ created = [n \in Names |-> Some([dimension |-> 1, metric |-> "cosine"])]
    /\ last = Call("none", NoArgs, "ok", Null, <<>>, colls)
    /\ settings = DefaultSettings
    /\ fs = "writable"

CancelNext ==
    \/ UpsertCall
    \/ EngineApply
    \/ UpsertResume
    \/ Cancel
    \/ RequestLost

CancelSpec == CancelInit /\ [][CancelNext]_vars

-----------------------------------------------------------------------------
(* The score conversion over pairs of raw distances: the only operation is *)
(* one conversion of each distance of a pair under one metric              *)

MaxDistance == 3
\* the halves from -1 to MaxDistance; an l2 distance is never negative
ScoreDistances == {Rat(k, 2) : k \in -2..(2 * MaxDistance)}
DistancesOf(space) ==
    IF space = "l2" THEN {d \in ScoreDistances : RLe(Zero, d)} ELSE ScoreDistances

ConvertScores ==
    \E metric \in StandardMetrics :
      \E d1 \in DistancesOf(ChromaMetricMap(metric)),
         d2 \in DistancesOf(ChromaMetricMap(metric)) :
        /\ last' = Call("_distance_to_score",
                        [name |-> Null, metric |-> metric, d1 |-> d1, d2 |-> d2],
                        "ok",
                        <<DistanceToScore(d1, ChromaMetricMap(metric)),
                          DistanceToScore(d2, ChromaMetricMap(metric))>>,
                        <<>>, colls)
        /\ UNCHANGED <<tasks, page, settings, fs, adapter, client, colls, created>>

ScoreInit ==
    /\ tasks = NoTasks
    /\ page = NoPage
    /\ settings = DefaultSettings
    /\ fs = "writable"
    /\ adapter = "embedded"
    /\ client = NewHandle(NoClient)
    /\ colls = {}
    /\ created = [name \in Names |-> None]
    /\ last = Call("none", NoArgs, "ok", Null, <<>>, colls)

ScoreNext == last.op = "none" /\ ConvertScores

ScoreSpec == ScoreInit /\ [][ScoreNext]_vars

-----------------------------------------------------------------------------
(* The search page: its React state, the api.search request in flight and  *)
(* the api.listLibraries request of its mount effect. A handler runs to    *)
(* its first await, and a settled promise's continuation to its end,       *)
(* before the page takes another event                                     *)

MaxQueryLen == 2
\* strings as sequences of characters
QueryStrings == SeqsUpTo({" ", "r"}, MaxQueryLen)
LibraryLists == {<<>>, <<"lib">>}
\* the results field of a search response: absent, or a list
SearchResponses == {None, Some(<<>>), Some(<<"hit">>)}

\* String.prototype.trim: the string without its leading and trailing blanks
Trim(q) ==
    LET inked == {i \in DOMAIN q : q[i] # " "}
    IN IF inked = {} THEN <<>>
       ELSE SubSeq(q, CHOOSE i \in inked : \A j \in inked : i <= j,
                   CHOOSE i \in inked : \A j \in inked : j <= i)

\* Blank taking only the empty string for blank
BlankEmptyOnly(q) == q = <<>>

\* !query.trim()
Blank(q) == Trim(q) = <<>>

\* onChange={(e) => setQuery(e.target.value)}
SetQuery ==
    \E q \in QueryStrings :
        /\ page' = [page EXCEPT !.query = q]
        /\ last' = Call("setQuery", [name |-> Null, query |-> q], "ok", Null, <<>>, page)
        /\ UNCHANGED <<tasks, settings, fs, adapter, client, colls, created>>

\* the select is rendered when libraries.length > 0
SelectLibrary ==
    /\ Len(page.libraries) > 0
    /\ \E v \in {""} \cup Range(page.libraries) :
        /\ page' = [page EXCEPT !.selectedLibrary = v]
        /\ last' = Call("setSelectedLibrary", [name |-> Null, value |-> v],
                        "ok", Null, <<>>, page)
    /\ UNCHANGED <<tasks, settings, fs, adapter, client, colls, created>>

\* api.listLibraries().then(setLibraries).catch(console.error)
LibrariesSettle ==
    /\ page.libraries_pending
    /\ \E ok \in BOOLEAN, libs \in LibraryLists :
        /\ page' = [page EXCEPT !.libraries_pending = FALSE,
                                !.libraries = IF ok THEN libs ELSE @]
        /\ last' = Call("listLibraries", NoArgs, IF ok THEN "ok" ELSE "rejected",
                        Null, <<>>, page)
    /\ UNCHANGED <<tasks, settings, fs, adapter, client, colls, created>>

\* handleSearch up to its await; the submit button is disabled while loading
HandleSearch ==
    /\ ~page.loading
    /\ IF Blank(page.query)
       THEN /\ page' = page
            /\ last' = Call("handleSearch", [name |-> Null, query |-> page.query],
                            "ok", Null, <<>>, page)
       ELSE /\ page' = [page EXCEPT
                          !.loading = TRUE,
                          !.searched = TRUE,
                          !.pending = Append(@, [query |-> Trim(page.query),
                                                 library_id |-> page.selectedLibrary])]
            /\ last' = Call("handleSearch", [name |-> Null, query |-> page.query],
                            "ok", Null, <<"api.search">>, page)
    /\ UNCHANGED <<tasks, settings, fs, adapter, client, colls, created>>

\* the request succeeds: setResults(response.results || []); setLoading(false)
SearchResolve ==
    /\ Len(page.pending) > 0
    /\ \E response \in SearchResponses :
        /\ page' = [page EXCEPT
                      !.results = IF Truthy(response) THEN Val(response) ELSE <<>>,
                      !.loading = FALSE,
                      !.pending = Tail(@),
                      !.settled = Some([ok |-> TRUE, results |-> response])]
        /\ last' = Call("searchResolve", NoArgs, "ok", response, <<>>, page)
    /\ UNCHANGED <<tasks, settings, fs, adapter, client, colls, created>>

\* SearchReject leaving the results of the search before
SearchRejectKeepsResults ==
    /\ Len(page.pending) > 0
    /\ page' = [page EXCEPT !.loading = FALSE,
                            !.pending = Tail(@),
                            !.settled = Some([ok |-> FALSE, results |-> None])]
    /\ last' = Call("searchReject", NoArgs, "rejected", Null, <<>>, page)
    /\ UNCHANGED <<tasks, settings, fs, adapter, client, colls, created>>

\* the request fails: setResults([]); setLoading(false)
SearchReject ==
    /\ Len(page.pending) > 0
    /\ page' = [page EXCEPT !.results = <<>>,
                            !.loading = FALSE,
                            !.pending = Tail(@),
                            !.settled = Some([ok |-> FALSE, results |-> None])]
    /\ last' = Call("searchReject", NoArgs, "rejected", Null, <<>>, page)
    /\ UNCHANGED <<tasks, settings, fs, adapter, client, colls, created>>

\* the page as mounted: the useState initial values, listLibraries requested;
\* settled is the outcome of the last search request that settled
PageInit ==
    /\ page = [query |-> <<>>, results |-> <<>>, loading |-> FALSE,
               searched |-> FALSE, libraries |-> <<>>, selectedLibrary |-> "",
               libraries_pending |-> TRUE, pending |-> <<>>, settled |-> None]
    /\ tasks = NoTasks
    /\ settings = DefaultSettings
    /\ fs = "writable"
    /\ adapter = Null
    /\ client = NoClient
    /\ colls = {}
    /\ created = [name \in Names |-> None]
    /\ last = Call("none", NoArgs, "ok", Null, <<>>, page)

SearchSettle == SearchResolve \/ SearchReject

PageNext ==
    \/ SetQuery
    \/ SelectLibrary
    \/ LibrariesSettle
    \/ HandleSearch
    \/ SearchResolve
    \/ SearchReject

PageSpec == PageInit /\ [][PageNext]_vars

\* every api.search promise settles
PageFairSpec == PageSpec /\ WF_vars(SearchSettle)

-----------------------------------------------------------------------------
(* The claims                                                              *)

DataOps == {"createCollection", "deleteCollection", "collectionExists",
            "getCollectionInfo", "upsert", "search", "delete", "count"}
Initialized == client # NoClient
StoredIds(cs, name) ==
    IF EngineHas(cs, name) THEN {p.id : p \in Points(cs, name)} ELSE {}
RecordIds(records) == {records[i].id : i \in DOMAIN records}

\* C1: a data operation called while the adapter holds no client (before
\* initialize(), after close()) fails with NotInitialized and leaves the
\* backend's collections as they were.
C1_NotInitialized ==
    (last.op \in DataOps /\ ~Initialized) =>
        (last.outcome = "NotInitialized" /\ colls = last.pre)

\* C2: upsert overwrites per id.  In every state no two points of a collection
\* share an id; after a successful upsert each id of the batch is stored once,
\* with the vector and payload of the batch's last record of that id, and the
\* count has grown by the number of distinct ids of the batch that were not
\* stored before (by 0 for ids that were).
C2_UpsertOverwrites ==
    /\ \A c \in colls : \A p, q \in c.points : p.id = q.id => p = q
    /\ (last.op = "upsert" /\ last.outcome = "ok") =>
          LET name == last.args.name
              records == last.args.records
              post == Points(colls, name)
          IN /\ \A i \in DOMAIN records :
                   (\A j \in DOMAIN records : j > i => records[j].id # records[i].id)
                   => /\ [id |-> records[i].id, vector |-> records[i].vector,
                          payload |-> records[i].payload] \in post
                      /\ Cardinality({p \in post : p.id = records[i].id}) = 1
             /\ Cardinality(post) =
                   PointsCount(last.pre, name)
                   + Cardinality(RecordIds(records) \ StoredIds(last.pre, name))

\* C2's case: one batch re-upserts a stored id with another payload and adds
\* a new id
C2_Witness ==
    /\ last.op = "upsert" /\ last.outcome = "ok"
    /\ Len(last.args.records) = 2
    /\ last.args.records[1].id # last.args.records[2].id
    /\ \E p \in Points(last.pre, last.args.name) :
          /\ p.id = last.args.records[1].id
          /\ p.payload # last.args.records[1].payload
    /\ last.args.records[2].id \notin StoredIds(last.pre, last.args.name)

\* C3: an upsert with a record whose vector length differs from the
\* collection's dimension fails with DimensionMismatch and stores nothing of
\* the batch; in every state every stored vector has its collection's
\* dimension.
C3_DimensionMismatchStoresNothing ==
    /\ \A c \in colls : \A p \in c.points : Len(p.vector) = c.dimension
    /\ (/\ last.op = "upsert" /\ Initialized
        /\ EngineHas(last.pre, last.args.name)
        /\ \E i \in DOMAIN last.args.records :
              Len(last.args.records[i].vector)
                 # EngineGet(last.pre, last.args.name).dimension)
       => (last.outcome = "DimensionMismatch" /\ colls = last.pre)

\* C3's case: a batch of a fitting record followed by a misfit, rejected by a
\* collection that holds records
C3_Witness ==
    /\ last.op = "upsert" /\ last.outcome = "DimensionMismatch"
    /\ Len(last.args.records) = 2
    /\ Len(last.args.records[1].vector) = EngineGet(colls, last.args.name).dimension
    /\ PointsCount(colls, last.args.name) >= 1

\* C4: search returns at most `limit` results, by descending score, and
\* results of equal score by ascending id.
C4_SearchOrdered ==
    (last.op = "search" /\ last.outcome = "ok") =>
        /\ Len(last.ret) <= last.args.limit
        /\ \A i \in 1..(Len(last.ret) - 1) :
              /\ RLe(last.ret[i + 1].score, last.ret[i].score)
              /\ REq(last.ret[i + 1].score, last.ret[i].score)
                 => IdRank(last.ret[i].id) < IdRank(last.ret[i + 1].id)

\* C5: every result of a search has a score within [0,1], on either adapter
\* and under every metric.
C5_ScoresNormalized ==
    (last.op = "search" /\ last.outcome = "ok") =>
        \A i \in DOMAIN last.ret :
            RLe(Zero, last.ret[i].score) /\ RLe(last.ret[i].score, One)

\* C5's case: the embedded adapter under inner product, where the raw
\* distance of <<0, 2>> to itself is -4 and the score is clamped to 1
C5_Witness ==
    /\ last.op = "search" /\ last.outcome = "ok"
    /\ adapter = "embedded"
    /\ EngineGet(colls, last.args.name).metric = "ip"
    /\ last.args.query_vector = <<0, 2>>
    /\ \E p \in Points(colls, last.args.name) :
          /\ p.vector = <<0, 2>>
          /\ \E i \in DOMAIN last.ret :
                last.ret[i].id = p.id /\ REq(last.ret[i].score, One)

\* C6: after a successful delete by ids none of the ids is stored, a search
\* returns stored ids only, and an id that was not stored becomes stored only
\* by an upsert of it: so no search returns a deleted id until it is upserted
\* again.  A successful delete by ids alone lowers the count by the number of
\* distinct supplied ids that were stored.
C6_DeletedIdsStayGone ==
    /\ (last.op = "search" /\ last.outcome = "ok") =>
          \A i \in DOMAIN last.ret : last.ret[i].id \in StoredIds(colls, last.args.name)
    /\ (last.op = "delete" /\ last.outcome = "ok" /\ ~IsNone(last.args.ids)) =>
          Range(Val(last.args.ids)) \cap StoredIds(colls, last.args.name) = {}
    /\ \A n \in Names : \A x \in StoredIds(colls, n) \ StoredIds(last.pre, n) :
          /\ last.op = "upsert" /\ last.outcome = "ok"
          /\ last.args.name = n
          /\ x \in RecordIds(last.args.records)
    /\ (/\ last.op = "delete" /\ last.outcome = "ok"
        /\ ~IsNone(last.args.ids) /\ IsNone(last.args.filters)) =>
          PointsCount(colls, last.args.name) =
             PointsCount(last.pre, last.args.name)
             - Cardinality(Range(Val(last.args.ids))
                              \cap StoredIds(last.pre, last.args.name))

\* C6's case: a delete that names a stored id twice, beside a record that
\* stays
C6_Witness ==
    /\ last.op = "delete" /\ last.outcome = "ok"
    /\ IsNone(last.args.filters) /\ ~IsNone(last.args.ids)
    /\ Val(last.args.ids) = <<"a", "a">>
    /\ StoredIds(last.pre, last.args.name) = {"a", "b"}
    /\ StoredIds(colls, last.args.name) = {"b"}

C8_DeleteNeedsSelector ==
    (/\ last.op = "delete" /\ Initialized
     /\ IsNone(last.args.ids) /\ IsNone(last.args.filters)) =>
        /\ last.outcome = "InvalidArgument"
        /\ last.calls = <<>>
        /\ colls = last.pre

\* C8's case: the collection exists and holds records
C8_Witness ==
    /\ last.op = "delete" /\ Initialized
    /\ IsNone(last.args.ids) /\ IsNone(last.args.filters)
    /\ last.outcome = "InvalidArgument"
    /\ EngineHas(colls, last.args.name)
    /\ PointsCount(colls, last.args.name) = 2

\* C9: on an initialized adapter, createCollection with dimension > 0 for a
\* name the backend holds fails with AlreadyExists and leaves the collections
\* as they were; in every state no two collections share a name.
C9_CreateExistingRejected ==
    /\ \A c, d \in colls : c.name = d.name => c = d
    /\ (/\ last.op = "createCollection" /\ Initialized
        /\ last.args.dimension > 0
        /\ EngineHas(last.pre, last.args.name))
       => (last.outcome = "AlreadyExists" /\ colls = last.pre)

\* C9's case: the second create asks for another dimension and metric than
\* the collection, which holds records, has
C9_Witness ==
    /\ last.op = "createCollection" /\ last.outcome = "AlreadyExists"
    /\ last.args.dimension # EngineGet(colls, last.args.name).dimension
    /\ last.args.metric = "dot"
    /\ created[last.args.name] # None
    /\ Val(created[last.args.name]).metric = "cosine"
    /\ PointsCount(colls, last.args.name) >= 1

\* C10: getCollectionInfo on an initialized adapter reports, for a collection
\* created with dimension d and a metric m of cosine, euclidean, dot, the
\* dimension d and the metric m, whatever upserts, searches and deletes came
\* between.
C10_InfoReportsCreation ==
    (/\ last.op = "getCollectionInfo" /\ Initialized
     /\ created[last.args.name] # None
     /\ Val(created[last.args.name]).metric \in StandardMetrics) =>
        /\ last.outcome = "ok"
        /\ last.ret # None
        /\ Val(last.ret).dimension = Val(created[last.args.name]).dimension
        /\ Val(last.ret).distance_metric = Chars(Val(created[last.args.name]).metric)

\* C11: createCollection on an initialized adapter with a metric outside
\* {cosine, euclidean, dot} fails with a configuration error and creates no
\* collection.
C11_UnknownMetricRejected ==
    (/\ last.op = "createCollection" /\ Initialized
     /\ last.args.dimension > 0
     /\ ~EngineHas(last.pre, last.args.name)
     /\ last.args.metric \notin StandardMetrics) =>
        /\ last.outcome = "ConfigurationError"
        /\ colls = last.pre

\* a plain search: no filter, no threshold
PlainSearch ==
    /\ last.op = "search" /\ last.outcome = "ok"
    /\ IsNone(last.args.filters) /\ IsNone(last.args.score_threshold)
\* the score of a vector against itself under the metric a collection was
\* created with: 1 under cosine and euclidean, min(1, r.r) under dot
SelfScore(metric, r) ==
    IF metric = "dot" THEN RMin(One, Rat(Dot(r, r), 1)) ELSE One

C13_UpsertReturnsSubmitted ==
    /\ (last.op = "upsert" /\ last.outcome = "ok") =>
          last.ret = Len(last.args.records)
    /\ (/\ last.op = "upsert" /\ Initialized
        /\ EngineHas(last.pre, last.args.name)
        /\ last.args.records = <<>>) =>
          (last.outcome = "ok" /\ last.ret = 0 /\ colls = last.pre)

\* C13's case: two records are upserted again exactly as they are stored, so
\* no row changes, and the call returns 2
C13_Witness ==
    /\ last.op = "upsert" /\ last.outcome = "ok"
    /\ Len(last.args.records) = 2
    /\ last.args.records[1].id # last.args.records[2].id
    /\ \A i \in DOMAIN last.args.records :
          [id |-> last.args.records[i].id, vector |-> last.args.records[i].vector,
           payload |-> last.args.records[i].payload]
             \in Points(last.pre, last.args.name)
    /\ colls = last.pre
    /\ last.ret = 2

\* C14: a search given a score threshold t returns no result whose score,
\* the normalized one of the response, is below t, on either adapter.
C14_ThresholdOnScore ==
    (/\ last.op = "search" /\ last.outcome = "ok"
     /\ ~IsNone(last.args.score_threshold)) =>
        \A i \in DOMAIN last.ret :
            RLe(Val(last.args.score_threshold), last.ret[i].score)

\* C14's case: the limit would admit every stored record, one record is
\* returned and another is left out by the threshold
C14_Witness ==
    /\ last.op = "search" /\ last.outcome = "ok"
    /\ ~IsNone(last.args.score_threshold) /\ IsNone(last.args.filters)
    /\ PointsCount(colls, last.args.name) <= last.args.limit
    /\ Len(last.ret) >= 1
    /\ \E p \in Points(colls, last.args.name) :
          \A i \in DOMAIN last.ret : last.ret[i].id # p.id

\* C15: initialize() on an adapter that holds a client succeeds and leaves
\* the client handle and the collections as they are; close() on an adapter
\* that holds no client succeeds and changes nothing.
C15_LifecycleIdempotent ==
    [][/\ (last'.op = "initialize" /\ client # NoClient) =>
             (last'.outcome = "ok" /\ client' = client /\ colls' = colls)
       /\ (last'.op = "close" /\ client = NoClient) =>
             (last'.outcome = "ok" /\ client' = NoClient /\ colls' = colls)]_vars

\* the mode a factory call asks for: the argument when one is passed, else
\* the configured mode
RequestedMode ==
    IF last.args.mode = Null THEN settings.mcp_mode ELSE last.args.mode
FactoryCalled == last.op = "get_vector_db"
UrlPresent == settings.qdrant_url # Null /\ settings.qdrant_url # ""
KeyPresent == settings.qdrant_api_key # Null /\ settings.qdrant_api_key # ""
Constructors == {"ChromaVectorDB", "QdrantVectorDB"}
Constructed == {i \in DOMAIN last.calls : last.calls[i] \in Constructors}

\* C16: a factory call for a remote mode (cloud, hybrid) under settings with
\* exactly one of URL and key present fails with ConfigurationError whose
\* message names the missing setting, after the validator alone has run: no
\* adapter is constructed, self-hosted or other, whatever host and port are.
C16_HalfCloudConfigRejected ==
    (/\ FactoryCalled /\ RequestedMode \in {"cloud", "hybrid"}
     /\ UrlPresent # KeyPresent) =>
        /\ last.outcome = "ConfigurationError"
        /\ last.ret = IF UrlPresent THEN "Set DOCVECTOR_QDRANT_API_KEY"
                      ELSE "Set DOCVECTOR_QDRANT_URL"
        /\ last.calls = <<"_validate_qdrant_config">>
        /\ adapter = Null /\ client = NoClient

\* C16's case: only the URL is set, beside a complete host and port
C16_Witness ==
    /\ FactoryCalled /\ RequestedMode = "cloud"
    /\ UrlPresent /\ ~KeyPresent
    /\ settings.qdrant_host = "localhost" /\ settings.qdrant_port > 0
    /\ last.outcome = "ConfigurationError"
    /\ last.ret = "Set DOCVECTOR_QDRANT_API_KEY"

\* C17: a factory call whose requested mode is none of local, cloud, hybrid
\* fails with InvalidArgument, no validator having run and no adapter having
\* been constructed.
C17_InvalidModeRejected ==
    (FactoryCalled /\ RequestedMode \notin {"local", "cloud", "hybrid"}) =>
        /\ last.outcome = "InvalidArgument"
        /\ last.calls = <<>>
        /\ adapter = Null

\* C18: a factory call for a mode of local, cloud, hybrid under a valid
\* configuration succeeds; a call that succeeds has run one validator and one
\* constructor, and its adapter is embedded for local and remote for cloud
\* and hybrid, and holds no client; a call that fails has constructed no
\* adapter.
C18_OneUninitializedAdapter ==
    FactoryCalled =>
        /\ (/\ RequestedMode = "local"
            /\ settings.chroma_persist_directory # "" /\ fs = "writable")
           => last.outcome = "ok"
        /\ (/\ RequestedMode \in {"cloud", "hybrid"}
            /\ \/ UrlPresent /\ KeyPresent
               \/ /\ ~UrlPresent /\ ~KeyPresent
                  /\ settings.qdrant_host \notin {Null, ""}
                  /\ settings.qdrant_port > 0)
           => last.outcome = "ok"
        /\ (last.outcome = "ok" /\ RequestedMode \in {"local", "cloud", "hybrid"}) =>
              /\ adapter = IF RequestedMode = "local" THEN "embedded" ELSE "remote"
              /\ last.ret.kind = adapter
              /\ last.ret.client = NoClient /\ client = NoClient
              /\ Len(last.calls) = 2 /\ Cardinality(Constructed) = 1
              /\ last.calls[1] = IF RequestedMode = "local"
                                 THEN "_validate_chroma_config"
                                 ELSE "_validate_qdrant_config"
        /\ last.outcome # "ok" => (adapter = Null /\ Constructed = {})

\* C18's case: hybrid mode is asked for by argument over a configured local
\* mode, with a self-hosted configuration
C18_Witness ==
    /\ FactoryCalled /\ last.outcome = "ok"
    /\ last.args.mode = "hybrid" /\ settings.mcp_mode = "local"
    /\ ~UrlPresent /\ ~KeyPresent
    /\ adapter = "remote" /\ client = NoClient
    /\ last.ret.host = "localhost"

\* C19: a factory call for local mode succeeds exactly when the persist path
\* is non-empty and its parent directory is found writable; otherwise it
\* fails with ConfigurationError and constructs no adapter.
C19_LocalNeedsWritableParent ==
    (FactoryCalled /\ RequestedMode = "local") =>
        /\ last.outcome = "ok" <=>
              (settings.chroma_persist_directory # "" /\ fs = "writable")
        /\ last.outcome # "ok" =>
              (last.outcome = "ConfigurationError" /\ adapter = Null)

\* the score a list gives an id in the last fusion, zero when it lacks the id
ListedScore(results, id) ==
    IF id \in {results[i].id : i \in DOMAIN results}
    THEN LET i == CHOOSE k \in DOMAIN results : results[k].id = id
         IN results[i].score
    ELSE Rat(0, 1)
\* w_v * vectorScore(id) + w_k * keywordScore(id) for the last fusion
WeightedSum(id) ==
    LET v == ListedScore(last.args.vector_results, id)
        k == ListedScore(last.args.keyword_results, id)
        wv == last.args.w_v
        wk == last.args.w_k
    IN Rat(wv[1] * v[1] * wk[2] * k[2] + wk[1] * k[1] * wv[2] * v[2],
           wv[2] * v[2] * wk[2] * k[2])
Fused == last.op = "hybridSearch" /\ last.outcome = "ok"

\* C20: every entry of the fused list carries the score
\* w_v * vectorScore(id) + w_k * keywordScore(id), the term of a list that
\* lacks the id being 0; and when the limit admits every id and the floor is
\* 0, every id of either list has an entry.
C20_CombinedScore ==
    Fused =>
        /\ \A i \in DOMAIN last.ret :
              REq(last.ret[i].score, WeightedSum(last.ret[i].id))
        /\ LET ids == {last.args.vector_results[i].id :
                          i \in DOMAIN last.args.vector_results}
                      \cup {last.args.keyword_results[i].id :
                               i \in DOMAIN last.args.keyword_results}
           IN (Cardinality(ids) <= last.args.limit /\ REq(last.args.floor, Rat(0, 1)))
              => {last.ret[i].id : i \in DOMAIN last.ret} = ids

\* C20's case: vector [a:0.9], keyword [a:0.5, b:0.8], weights (0.7, 0.3)
\* give [a:0.78, b:0.24]
C20_Witness ==
    /\ Fused
    /\ Len(last.args.vector_results) = 1
    /\ last.args.vector_results[1].id = "a"
    /\ REq(last.args.vector_results[1].score, Rat(9, 10))
    /\ Len(last.args.keyword_results) = 2
    /\ last.args.keyword_results[1].id = "a"
    /\ REq(last.args.keyword_results[1].score, Rat(5, 10))
    /\ last.args.keyword_results[2].id = "b"
    /\ REq(last.args.keyword_results[2].score, Rat(8, 10))
    /\ REq(last.args.w_v, Rat(7, 10)) /\ REq(last.args.w_k, Rat(3, 10))
    /\ last.args.limit = 2 /\ REq(last.args.floor, Rat(0, 1))
    /\ Len(last.ret) = 2
    /\ last.ret[1].id = "a" /\ REq(last.ret[1].score, Rat(78, 100))
    /\ last.ret[2].id = "b" /\ REq(last.ret[2].score, Rat(24, 100))

\* C21: the fused list holds each id at most once, is in descending order of
\* combined score with equal scores in ascending id order, has at most
\* `limit` entries, and has no entry whose score is below the floor.
C21_FusedListShape ==
    Fused =>
        /\ \A i, j \in DOMAIN last.ret : i # j => last.ret[i].id # last.ret[j].id
        /\ \A i \in 1..(Len(last.ret) - 1) :
              /\ RLe(last.ret[i + 1].score, last.ret[i].score)
              /\ REq(last.ret[i + 1].score, last.ret[i].score)
                 => IdRank(last.ret[i].id) < IdRank(last.ret[i + 1].id)
        /\ Len(last.ret) <= last.args.limit
        /\ \A i \in DOMAIN last.ret : RLe(last.args.floor, last.ret[i].score)

\* C21's case: both lists hold both ids, b listed before a; the two combined
\* scores are equal and a comes first
C21_Witness ==
    /\ Fused
    /\ Len(last.args.vector_results) = 2 /\ last.args.vector_results[1].id = "b"
    /\ Len(last.args.keyword_results) = 2 /\ last.args.keyword_results[1].id = "b"
    /\ last.args.limit = 2 /\ ~REq(last.args.floor, Rat(0, 1))
    /\ Len(last.ret) = 2
    /\ last.ret[1].id = "a" /\ last.ret[2].id = "b"
    /\ REq(last.ret[1].score, last.ret[2].score)

\* C22: a hybrid search whose vector subsystem answers and whose keyword
\* subsystem is unavailable succeeds, marked degraded, with entries of the
\* vector list only, in descending order of their vector scores; a search
\* whose vector subsystem fails fails, whatever the keyword subsystem did;
\* the degraded mark is set in the first case and in no other.
C22_DegradedOnlyWithoutKeywords ==
    last.op = "hybridSearch" =>
        /\ (last.args.vector_available /\ ~last.args.keyword_available) =>
              /\ last.outcome = "ok"
              /\ \A i \in DOMAIN last.ret :
                    /\ last.ret[i].id \in {last.args.vector_results[k].id :
                                             k \in DOMAIN last.args.vector_results}
                    /\ REq(last.ret[i].score,
                           Rat(last.args.w_v[1]
                                 * ListedScore(last.args.vector_results,
                                               last.ret[i].id)[1],
                               last.args.w_v[2]
                                 * ListedScore(last.args.vector_results,
                                               last.ret[i].id)[2]))
              /\ \A i \in 1..(Len(last.ret) - 1) :
                    RLe(ListedScore(last.args.vector_results, last.ret[i + 1].id),
                        ListedScore(last.args.vector_results, last.ret[i].id))
        /\ ~last.args.vector_available => last.outcome # "ok"
        /\ last.degraded <=>
              (last.args.vector_available /\ ~last.args.keyword_available)

\* C22's case: two vector results, no keyword subsystem, both returned
C22_Witness ==
    /\ last.op = "hybridSearch" /\ last.outcome = "ok"
    /\ last.args.vector_available /\ ~last.args.keyword_available
    /\ Len(last.args.vector_results) = 2
    /\ Len(last.ret) = 2
    /\ last.degraded

\* C23: under any interleaving of a filter-based delete on the remote adapter
\* with the upserts of other writers, the value returned is
\* max(0, count_before - count_after), never negative; with no upsert between
\* the two counts it is the number of records the delete removed; and the
\* filter call removes every record that matched the filter and no other.
C23_BestEffortCount ==
    (tasks.pc = "done" /\ last.outcome = "ok" /\ Truthy(tasks.filters)) =>
        /\ last.ret = Max(0, tasks.pre_count - tasks.post_count)
        /\ last.ret >= 0
        /\ tasks.interleaved = 0 => last.ret = Cardinality(tasks.removed)
        /\ tasks.filter_after
             = {p \in tasks.filter_before : ~Matches(p, Val(tasks.filters))}

\* C23's case: an upsert ran between the two counts, the delete removed a
\* record, and the returned count is not the number removed
C23_Witness ==
    /\ tasks.pc = "done" /\ last.outcome = "ok" /\ Truthy(tasks.filters)
    /\ tasks.interleaved > 0
    /\ tasks.removed # {}
    /\ last.ret # Cardinality(tasks.removed)

InEngine(t) == tasks[t].pc = "in_engine"

\* C24: on the embedded adapter, under any interleaving of concurrent callers,
\* no two write operations (createCollection, deleteCollection, upsert,
\* delete) are inside the engine at the same time.
C24_SingleWriter ==
    \A t, u \in Callers :
        (t # u /\ InEngine(t) /\ InEngine(u))
            => ~(tasks[t].op \in WriteOps /\ tasks[u].op \in WriteOps)

BatchApplied == EngineUpsertFrom(tasks.pre, ToPoints(tasks.records), 1)

\* C25: once a suspended upsert has been cancelled, the collection holds
\* either what it held before the call or that with the whole batch applied;
\* it never holds the result of applying only part of the batch.
C25_CancelledUpsertAllOrNothing ==
    tasks.pc = "cancelled" =>
        Points(colls, tasks.name) \in {tasks.pre, BatchApplied}

\* C25's case: a batch of two records with distinct ids was cancelled after
\* the engine had applied it
C25_Witness ==
    /\ tasks.pc = "cancelled"
    /\ Len(tasks.records) = 2
    /\ tasks.records[1].id # tasks.records[2].id
    /\ Points(colls, tasks.name) = BatchApplied
    /\ BatchApplied # tasks.pre

RemoteBuilt == FactoryCalled /\ last.outcome = "ok" /\ last.ret.kind = "remote"
CloudPair(db) == IsSet(db.url) /\ IsSet(db.api_key)
HostPair(db) == IsSet(db.host) /\ db.port > 0

\* C26: a remote adapter built by the factory carries exactly one connection
\* pair: url and key with no host, or host and port with neither url nor key.
C26_OneConnectionPair ==
    RemoteBuilt =>
        \/ CloudPair(last.ret) /\ ~IsSet(last.ret.host)
        \/ HostPair(last.ret) /\ ~IsSet(last.ret.url) /\ ~IsSet(last.ret.api_key)

\* C27: the factory's outcome and the adapter it returns depend on the mode
\* argument alone: under any other settings and filesystem the same argument
\* gives the same outcome and the same adapter, and the call leaves the
\* settings as they were.
C27_ExplicitConfigurationOnly ==
    FactoryCalled =>
        /\ \A st \in SettingsSpace, f \in FsStates :
              /\ GetVectorDb(last.args.mode, st, f).outcome = last.outcome
              /\ GetVectorDb(last.args.mode, st, f).ret = last.ret
        /\ settings \in SettingsSpace

Converted == last.op = "_distance_to_score"

\* C28: the embedded score conversion never gives a smaller distance a
\* smaller score; for cosine it is clamp(1 - d/2, 0, 1), which is 1 at d = 0
\* and 0 at d = 2; for euclidean it is 1/(1 + d), strictly decreasing in
\* d >= 0, 1 at d = 0 and positive everywhere; for dot it is clamp(-d, 0, 1).
C28_ScoreMonotone ==
    Converted =>
        LET d1 == last.args.d1
            d2 == last.args.d2
            s1 == last.ret[1]
            s2 == last.ret[2]
        IN /\ RLe(d1, d2) => RLe(s2, s1)
           /\ last.args.metric = "cosine" =>
                 /\ REq(s1, RMax(Zero, RMin(One, RSub(One, RHalf(d1)))))
                 /\ REq(d1, Zero) => REq(s1, One)
                 /\ REq(d1, Rat(2, 1)) => REq(s1, Zero)
           /\ last.args.metric = "euclidean" =>
                 /\ s1[1] * (d1[1] + d1[2]) = s1[2] * d1[2]
                 /\ RLt(d1, d2) => RLt(s2, s1)
                 /\ REq(d1, Zero) => REq(s1, One)
                 /\ RLt(Zero, s1)
           /\ last.args.metric = "dot" =>
                 REq(s1, RMax(Zero, RMin(One, RNeg(d1))))

\* C28's case: cosine distances 0 and 2, scored 1 and 0
C28_Witness ==
    /\ Converted /\ last.args.metric = "cosine"
    /\ REq(last.args.d1, Zero) /\ REq(last.args.d2, Rat(2, 1))
    /\ REq(last.ret[1], One) /\ REq(last.ret[2], Zero)

\* C29: on the search page, with handleSearch invoked only while loading is
\* false, loading is true exactly when an api.search request is pending, at
\* most one request is pending, and a handleSearch call with an empty or
\* whitespace-only query issues no request and leaves the page as it was.
C29_LoadingIffPending ==
    /\ page.loading <=> Len(page.pending) > 0
    /\ Len(page.pending) <= 1
    /\ \A i \in DOMAIN page.pending : page.pending[i].query # <<>>
    /\ (last.op = "handleSearch"
        /\ \A i \in DOMAIN last.args.query : last.args.query[i] = " ") =>
          /\ last.calls = <<>>
          /\ page = last.pre

\* C29's case: handleSearch has just been called with a whitespace-only query
C29_Witness ==
    /\ last.op = "handleSearch"
    /\ last.args.query = <<" ">>
    /\ ~page.loading /\ page.pending = <<>>

SettledResults ==
    IF Val(page.settled).ok /\ ~IsNone(Val(page.settled).results)
    THEN Val(Val(page.settled).results)
    ELSE <<>>

\* C30: every search request issued by handleSearch is followed by a state
\* with loading false and searched true; and whenever the page is not loading
\* after a request has settled, searched is true and results is the empty
\* list if the request failed, and the response's list, or the empty list if
\* it has none, if it succeeded.
C30_SearchSettles ==
    /\ [](( ~page.loading /\ ~IsNone(page.settled)) =>
             (page.searched /\ page.results = SettledResults))
    /\ (page.loading ~> (~page.loading /\ page.searched))

\* C30's case: a request failed on a page that showed the results of an
\* earlier search, and the results are gone
C30_Witness ==
    /\ last.op = "searchReject"
    /\ last.pre.results # <<>>
    /\ page.results = <<>>
    /\ ~page.loading /\ page.searched

====
